---- MODULE Spec2Model ----
(***************************************************************************)
(* The contact-message pipeline of the portfolio site: the engine          *)
(* (src/portfolio-engine/engine.py) over its "messages" table, and the     *)
(* gateway (src/api-gateway/gateway.py) that calls the engine over HTTP.   *)
(*                                                                         *)
(* A JSON object is a record; a JSON array a is carried as the record      *)
(* [array |-> a], so that every response body is a record.                 *)
(*                                                                         *)
(* The handlers keep no state of their own: resp, upstream and page hold   *)
(* the outcome of the latest request, for the properties to read.          *)
(***************************************************************************)
EXTENDS Integers, Sequences, FiniteSets, TLC

\* ------------------------------------------------------------- bounds
\* Most rows the table holds in the model.
MaxMessages == 2
\* Last value of the store's clock (func.now()) in the model.
MaxClock == 1

\* ---------------------------------------------------- program constants
\* String(255): the declared width of the name and email columns.
StringWidth == 255
\* "viewer_count": 124
ViewerCount == 124
\* The version string both health bodies carry.
Version == "v27.2.0"

\* ------------------------------------------------------------ inputs
RECURSIVE Text(_, _)
\* The text of n characters ch.
Text(n, ch) ==
    IF n = 0
    THEN ""
    ELSE LET half == Text(n \div 2, ch)
         IN  IF n % 2 = 0 THEN half \o half ELSE half \o half \o ch

\* ContactReq bodies / form triples the clients send: the empty strings, the
\* widest name and email the columns declare, and one character more.
ContactReqs ==
    { [name |-> "", email |-> "", message |-> ""],
      [name |-> Text(StringWidth, "n"), email |-> Text(StringWidth, "e"),
       message |-> Text(StringWidth + 1, "m")],
      [name |-> Text(StringWidth + 1, "n"), email |-> Text(StringWidth + 1, "e"),
       message |-> "m"] }

\* What the store behind DATABASE_URL does with a value wider than its
\* String(255) column: raise (a strict server), cut the value to the width
\* (a lenient server), or keep it whole (a store that ignores the width).
OverWidthPolicies == {"reject", "truncate", "keep"}

\* How one HTTP call of the gateway to the engine can end: the engine's
\* response arrives; the connection is refused (the engine never sees the
\* request); the engine handles the request but the response is lost (read
\* timeout, dropped connection); an intermediary answers 502 in its place.
NetOutcomes == {"response", "connect_error", "read_error", "bad_gateway"}

VARIABLES
    rows,       \* the messages table, in insertion order
    nextId,     \* the next value of the autoincrement primary key
    clock,      \* the store's func.now()
    dbUp,       \* whether the store answers statements
    overWidth,  \* the store's policy on over-wide values
    accepted,   \* history: the ContactReqs the engine answered 200 Received
    resp,       \* the engine's response to the latest request: [op, status, body]
    upstream,   \* what the gateway's call to the engine yielded in the latest request
    page        \* the page the gateway rendered for the latest request

vars == <<rows, nextId, clock, dbUp, overWidth, accepted, resp, upstream, page>>
store == <<rows, nextId, accepted>>
env == <<clock, dbUp, overWidth>>

\* ------------------------------------------------------------ store
Fits(req) == Len(req.name) <= StringWidth /\ Len(req.email) <= StringWidth

\* The value a String(255) column holds after an insert that did not raise.
Stored(s) ==
    IF Len(s) > StringWidth /\ overWidth = "truncate"
    THEN SubSeq(s, 1, StringWidth)
    ELSE s

\* Mutant of NewRow: the new row takes the newest row's id, not the next one.
NewRowReusedId(req) ==
    [id |-> IF rows = <<>> THEN nextId ELSE rows[Len(rows)].id,
     name |-> Stored(req.name), email |-> Stored(req.email),
     message |-> req.message, created_at |-> clock]

\* insert(messages).values(name=, email=, message=): id from the primary
\* key's autoincrement, created_at from server_default=func.now().
NewRow(req) ==
    [id |-> nextId, name |-> Stored(req.name), email |-> Stored(req.email),
     message |-> req.message, created_at |-> clock]

\* session.execute(stmt) / session.commit() raise.
InsertRaises(req) == ~dbUp \/ (overWidth = "reject" /\ ~Fits(req))

\* ----------------------------------------------------------- engine
Reply(status, body) == [status |-> status, body |-> body]
Served(op, reply) == [op |-> op, status |-> reply.status, body |-> reply.body]

\* An exception that leaves a handler: the framework answers 500.
InternalServerError == Reply(500, [text |-> "Internal Server Error"])

Received == [status |-> "Received"]

\* Mutant of healthReply: no try/except around the liveness query.
healthReplyUnguarded ==
    IF dbUp
    THEN Reply(200, [status |-> "Operational", db |-> "Connected", version |-> Version])
    ELSE InternalServerError

healthReply ==
    IF dbUp
    THEN Reply(200, [status |-> "Operational", db |-> "Connected", version |-> Version])
    ELSE Reply(200, [status |-> "Degraded", db |-> "Disconnected", version |-> Version])

\* Mutant of contactReply: the insert's exception is swallowed.
contactReplySwallowed(req) == Reply(200, Received)

contactReply(req) ==
    IF InsertRaises(req) THEN InternalServerError ELSE Reply(200, Received)

\* Mutant of contactRows: the session is never committed.
contactRowsNoCommit(req) == rows

contactRows(req) ==
    IF InsertRaises(req) THEN rows ELSE Append(rows, NewRow(req))

\* The orders in which select().order_by(created_at.desc()) can return the
\* rows: every order that is descending in created_at (the statement names
\* no second key, so rows of equal created_at come in any order).
OrderByCreatedAtDesc(rs) ==
    { p \in [1..Len(rs) -> 1..Len(rs)] :
        /\ \A i, j \in 1..Len(rs) : i # j => p[i] # p[j]
        /\ \A i \in 1..(Len(rs) - 1) :
             rs[p[i]].created_at >= rs[p[i + 1]].created_at }

\* Mutant of MessageJson: the name and email columns are swapped.
MessageJsonSwapped(r) ==
    [id |-> r.id, name |-> r.email, email |-> r.name, message |-> r.message,
     date |-> ToString(r.created_at)]

MessageJson(r) ==
    [id |-> r.id, name |-> r.name, email |-> r.email, message |-> r.message,
     date |-> ToString(r.created_at)]

get_messagesReplies ==
    IF ~dbUp
    THEN {InternalServerError}
    ELSE { Reply(200, [array |-> [i \in 1..Len(rows) |-> MessageJson(rows[p[i]])]]) :
             p \in OrderByCreatedAtDesc(rows) }

\* The engine's side of one handled request.
healthDo ==
    /\ resp' = Served("health", healthReply)
    /\ UNCHANGED store

contactDo(req) ==
    /\ InsertRaises(req) \/ Len(rows) < MaxMessages
    /\ rows' = contactRows(req)
    /\ nextId' = IF InsertRaises(req) THEN nextId ELSE nextId + 1
    /\ accepted' = IF contactReply(req).status = 200 THEN accepted \cup {req} ELSE accepted
    /\ resp' = Served("contact", contactReply(req))

get_messagesDo ==
    /\ \E reply \in get_messagesReplies : resp' = Served("messages", reply)
    /\ UNCHANGED store

\* The latest request did not reach the engine / did not pass the gateway.
NoResp == [op |-> "none", status |-> 0, body |-> [text |-> ""]]
NoCall == [op |-> "none", raised |-> FALSE, status |-> 0, body |-> [text |-> ""]]
NoPage == [template |-> "none", status |-> 0, ctx |-> [none |-> TRUE]]

Direct == upstream' = NoCall /\ page' = NoPage /\ UNCHANGED env

\* A client other than the gateway calls the engine.
health == healthDo /\ Direct

contact(req) == contactDo(req) /\ Direct

get_messages == get_messagesDo /\ Direct

\* ---------------------------------------------------------- gateway
Render(template, ctx) == [template |-> template, status |-> 200, ctx |-> ctx]

\* What the gateway's httpx call yields: a response, or an exception.
Call(op, net, served) ==
    CASE net = "response" ->
           [op |-> op, raised |-> FALSE, status |-> served.status, body |-> served.body]
      [] net = "bad_gateway" ->
           [op |-> op, raised |-> FALSE, status |-> 502, body |-> [text |-> "Bad Gateway"]]
      [] OTHER ->
           [op |-> op, raised |-> TRUE, status |-> 0, body |-> [text |-> net]]

Reaches(net) == net \in {"response", "read_error"}

\* Mutant of indexPage: no fallback, the page shows whatever the call yielded.
indexPageNoFallback(up) == Render("index.html", [system |-> up.body])

indexPage(up) ==
    Render("index.html",
           [system |-> IF ~up.raised /\ up.status = 200
                       THEN up.body
                       ELSE [status |-> "Offline", db |-> "Unknown"]])

\* Mutant of contact_formPage: the except branch is missing.
contact_formPageUnguarded(up) ==
    IF up.raised
    THEN [template |-> "none", status |-> 500, ctx |-> [none |-> TRUE]]
    ELSE Render("index.html",
                [success |-> TRUE,
                 system |-> [status |-> "Online", db |-> "Connected"]])

contact_formPage(up) ==
    IF up.raised
    THEN Render("index.html",
                [error |-> "Backend Service Unavailable",
                 system |-> [status |-> "Degraded"]])
    ELSE Render("index.html",
                [success |-> TRUE,
                 system |-> [status |-> "Online", db |-> "Connected"]])

\* Mutant of admin_panelPage: the except branch is missing.
admin_panelPageUnguarded(up) ==
    IF up.raised
    THEN [template |-> "none", status |-> 500, ctx |-> [none |-> TRUE]]
    ELSE Render("admin.html",
                [messages |-> IF up.status = 200 THEN up.body.array ELSE <<>>,
                 viewer_count |-> ViewerCount])

admin_panelPage(up) ==
    Render("admin.html",
           [messages |-> IF ~up.raised /\ up.status = 200 THEN up.body.array ELSE <<>>,
            viewer_count |-> ViewerCount])

index ==
    \E net \in NetOutcomes :
        /\ IF Reaches(net) THEN healthDo ELSE resp' = NoResp /\ UNCHANGED store
        /\ upstream' = Call("health", net, resp')
        /\ page' = indexPage(upstream')
        /\ UNCHANGED env

contact_form(form) ==
    \E net \in NetOutcomes :
        /\ IF Reaches(net) THEN contactDo(form) ELSE resp' = NoResp /\ UNCHANGED store
        /\ upstream' = Call("contact", net, resp')
        /\ page' = contact_formPage(upstream')
        /\ UNCHANGED env

admin_panel ==
    \E net \in NetOutcomes :
        /\ IF Reaches(net) THEN get_messagesDo ELSE resp' = NoResp /\ UNCHANGED store
        /\ upstream' = Call("messages", net, resp')
        /\ page' = admin_panelPage(upstream')
        /\ UNCHANGED env

\* ------------------------------------------------------ environment
Tick ==
    /\ clock < MaxClock
    /\ clock' = clock + 1
    /\ UNCHANGED <<store, dbUp, overWidth, resp, upstream, page>>

StoreDown ==
    /\ dbUp
    /\ dbUp' = FALSE
    /\ UNCHANGED <<store, clock, overWidth, resp, upstream, page>>

StoreUp ==
    /\ ~dbUp
    /\ dbUp' = TRUE
    /\ UNCHANGED <<store, clock, overWidth, resp, upstream, page>>

\* ----------------------------------------------------- specification
Init ==
    /\ rows = <<>>
    /\ nextId = 1
    /\ clock = 0
    /\ dbUp = TRUE
    /\ overWidth \in OverWidthPolicies
    /\ accepted = {}
    /\ resp = NoResp
    /\ upstream = NoCall
    /\ page = NoPage

Next ==
    \/ health
    \/ \E req \in ContactReqs : contact(req)
    \/ get_messages
    \/ index
    \/ \E form \in ContactReqs : contact_form(form)
    \/ admin_panel
    \/ Tick
    \/ StoreDown
    \/ StoreUp

Spec == Init /\ [][Next]_vars

\* ------------------------------------------------------------ claims

\* What a successful POST /contact leaves behind for the request req.
PersistsOne(req) ==
    /\ resp'.status = 200
    /\ resp'.body = Received
    /\ Len(rows') = Len(rows) + 1
    /\ \A i \in 1..Len(rows) : rows'[i] = rows[i]
    /\ rows'[Len(rows')].name = req.name
    /\ rows'[Len(rows')].email = req.email
    /\ rows'[Len(rows')].message = req.message

\* C1 as stated: while the store is reachable, the engine's POST /contact
\* with any three strings adds exactly one Message carrying them and answers
\* 200 {status: Received}.
C1_AnyTextPersists ==
    [][\A req \in ContactReqs : (dbUp /\ contactDo(req)) => PersistsOne(req)]_vars

\* C1 amended: the same, for a name and an email of at most 255 characters
\* (the message of any length, empty strings included).
C1_TextWithinWidthPersists ==
    [][\A req \in ContactReqs :
          (dbUp /\ Fits(req) /\ contactDo(req)) => PersistsOne(req)]_vars

\* A name and an email of exactly 255 characters were persisted.
C1_Witness ==
    /\ resp.op = "contact"
    /\ resp.status = 200
    /\ rows # <<>>
    /\ Len(rows[Len(rows)].name) = StringWidth
    /\ Len(rows[Len(rows)].email) = StringWidth
    /\ Len(rows[Len(rows)].message) > StringWidth

RowById(id) == CHOOSE r \in {rows[i] : i \in 1..Len(rows)} : r.id = id

\* C2: with N Messages persisted, GET /messages returns exactly N entries,
\* descending in creation timestamp, and the first entry is the Message
\* created last, also among Messages of equal creation timestamp.
C2_NewestFirst ==
    [][(dbUp /\ get_messagesDo) =>
          LET a == resp'.body.array
          IN  /\ resp'.status = 200
              /\ Len(a) = Len(rows)
              /\ \A i \in 1..(Len(a) - 1) :
                   RowById(a[i].id).created_at >= RowById(a[i + 1].id).created_at
              /\ rows # <<>> => a[1].id = rows[Len(rows)].id]_vars

\* C3: GET /health answers 200 in every store state; the body is
\* Operational/Connected exactly when the store answers and
\* Degraded/Disconnected exactly when it does not, with the same version.
C3_HealthNeverFails ==
    [][healthDo =>
          /\ resp'.status = 200
          /\ resp'.body.version = Version
          /\ dbUp <=> (resp'.body.status = "Operational" /\ resp'.body.db = "Connected")
          /\ ~dbUp <=> (resp'.body.status = "Degraded" /\ resp'.body.db = "Disconnected")]_vars

\* The health endpoint answered while the store was down.
C3_Witness ==
    /\ resp.op = "health"
    /\ resp.status = 200
    /\ ~dbUp
    /\ resp.body.status = "Degraded"

\* C4: the gateway's GET / always renders the index page with status 200;
\* it shows the engine's health body when the call answered 200 and
\* {status: Offline, db: Unknown} on every other outcome of the call.
C4_IndexAlwaysRenders ==
    upstream.op = "health" =>
        /\ page.template = "index.html"
        /\ page.status = 200
        /\ DOMAIN page.ctx = {"system"}
        /\ IF ~upstream.raised /\ upstream.status = 200
           THEN resp.op = "health" /\ page.ctx.system = resp.body
           ELSE page.ctx.system = [status |-> "Offline", db |-> "Unknown"]

\* The index page was rendered after the call to the engine raised.
C4_Witness ==
    /\ upstream.op = "health"
    /\ upstream.raised
    /\ page.template = "index.html"
    /\ page.ctx.system.status = "Offline"

\* C5: the gateway's POST /contact always renders the index page: with
\* success=true and {status: Online, db: Connected} when the forward call
\* returned, with error="Backend Service Unavailable" and {status: Degraded}
\* (no db, no version, no success flag) when it raised.
C5_ContactFormAlwaysRenders ==
    upstream.op = "contact" =>
        /\ page.template = "index.html"
        /\ page.status = 200
        /\ IF upstream.raised
           THEN /\ page.ctx = [error |-> "Backend Service Unavailable",
                               system |-> [status |-> "Degraded"]]
                /\ "success" \notin DOMAIN page.ctx
           ELSE page.ctx = [success |-> TRUE,
                            system |-> [status |-> "Online", db |-> "Connected"]]

\* The error page was rendered after the forward call raised.
C5_Witness ==
    /\ upstream.op = "contact"
    /\ upstream.raised
    /\ "error" \in DOMAIN page.ctx

\* The listing a carries the request req under an assigned id and date.
Lists(a, req) ==
    \E i \in 1..Len(a) :
        /\ a[i].name = req.name
        /\ a[i].email = req.email
        /\ a[i].message = req.message
        /\ a[i].id \in 1..(nextId - 1)
        /\ a[i].date \in {ToString(t) : t \in 0..clock}

\* C6 as stated: every request the engine accepted is in every later
\* GET /messages with identical name, email and message, and an assigned id
\* and date.
C6_RoundTripAnyText ==
    (resp.op = "messages" /\ resp.status = 200) =>
        \A req \in accepted : Lists(resp.body.array, req)

\* C6 amended: the same, for accepted requests whose name and email are at
\* most 255 characters.
C6_RoundTripWithinWidth ==
    (resp.op = "messages" /\ resp.status = 200) =>
        \A req \in accepted : Fits(req) => Lists(resp.body.array, req)

\* Two accepted requests, one of full width, were listed.
C6_Witness ==
    /\ resp.op = "messages"
    /\ resp.status = 200
    /\ Cardinality(accepted) = 2
    /\ \E req \in accepted : Len(req.name) = StringWidth

\* C7: after every step the identifiers are pairwise distinct (the store
\* starts empty); a persisted Message stays in the store unchanged; every
\* step that handles no POST /contact (GET /health, GET /messages, the
\* gateway's GET / and GET /admin) leaves the store unchanged.
C7_MessagesImmutable ==
    [][/\ \A i, j \in 1..Len(rows') : i # j => rows'[i].id # rows'[j].id
       /\ Len(rows') >= Len(rows)
       /\ \A i \in 1..Len(rows) : rows'[i] = rows[i]
       /\ (resp'.op # "contact" /\ upstream'.op # "contact") => rows' = rows]_vars

\* Two Messages are persisted and the admin page has just listed them.
C7_Witness ==
    /\ Len(rows) = 2
    /\ page.template = "admin.html"
    /\ Len(page.ctx.messages) = 2

\* C8: a store failure during POST /contact or GET /messages is answered
\* 500, a failed POST /contact leaves the Messages unchanged, and GET /health
\* alone answers 200 over a failed store.
C8_StoreFailurePropagates ==
    [][/\ \A req \in ContactReqs :
             (InsertRaises(req) /\ contactDo(req)) =>
                 (resp'.status = 500 /\ resp'.body # Received /\ rows' = rows)
       /\ (~dbUp /\ get_messagesDo) => resp'.status = 500
       /\ (~dbUp /\ healthDo) => resp'.status = 200]_vars

\* POST /contact was answered 500 over a store that is down and not empty.
C8_Witness ==
    /\ resp.op = "contact"
    /\ resp.status = 500
    /\ ~dbUp
    /\ rows # <<>>

\* C9: the gateway's GET /admin always renders the admin page with status
\* 200 and viewer count 124; it lists the engine's messages in the engine's
\* order when the call answered 200, and no message on any other outcome.
C9_AdminAlwaysRenders ==
    upstream.op = "messages" =>
        /\ page.template = "admin.html"
        /\ page.status = 200
        /\ page.ctx.viewer_count = ViewerCount
        /\ IF ~upstream.raised /\ upstream.status = 200
           THEN resp.op = "messages" /\ page.ctx.messages = resp.body.array
           ELSE page.ctx.messages = <<>>

\* The admin page was rendered empty over the engine's 500, with Messages
\* in the store.
C9_Witness ==
    /\ upstream.op = "messages"
    /\ ~upstream.raised
    /\ upstream.status = 500
    /\ rows # <<>>
    /\ page.template = "admin.html"

\* C10: when the engine has answered the forwarded POST /contact (of a form
\* within the column widths), the gateway's page carries success=true only
\* if that answer is 200 {status: Received} and the message is persisted;
\* over an error status of the engine the page carries no success flag.
C10_SuccessOnlyIfReceived ==
    [][\A form \in ContactReqs :
          (/\ Fits(form)
           /\ contact_form(form)
           /\ resp'.op = "contact"
           /\ ~upstream'.raised
           /\ "success" \in DOMAIN page'.ctx) =>
              /\ upstream'.status = 200
              /\ upstream'.body = Received
              /\ Len(rows') = Len(rows) + 1]_vars

====
